---- MODULE Spec2Model ----
(***************************************************************************)
(* Rotation-enhanced cover matching of book_scanner (src/app_3.py).        *)
(*                                                                         *)
(* Numbers.  The program computes with floats; here every score and gap is *)
(* a fixed-point integer in hundredths (0.70 is 70, the sentinel -1.0 is   *)
(* -100), obtained from the exact rational value by one floor.  Embeddings *)
(* are short integer vectors whose Euclidean norms are exact integers.     *)
(* Reported percentages (round(x * 100, 2)) are counted in units of 0.01   *)
(* percent, so 100.00 is 10000.                                            *)
(*                                                                         *)
(* Optional identifiers.  Python's None is the empty tuple << >> and an    *)
(* identifier i is the one-element tuple << i >>.                          *)
(***************************************************************************)
EXTENDS Integers, Sequences, FiniteSets, TLC

VARIABLES
    clip_loaded,       \* _clip_model / _clip_processor are not None
    books,             \* committed rows of table books (their ids)
    cover_embeddings,  \* committed rows of table cover_embeddings: << book_id, vector >>
    next_id,           \* next value of the SERIAL sequence books.id
    reg,               \* the open transaction of a registration: [pc, book_id, vector]
    deleted,           \* history: the ids whose delete has committed
    last_write,        \* store harness: the latest embedding write and what it replaced, or None
    pc,                \* position of the match request
    image_file,        \* the request's argument
    is_cartoon,        \* local is_cartoon
    conn,              \* local conn: "none" or "held" (checked out of the pool)
    db_items,          \* local db_items: sequence of << book_id, vector >>
    n_records,         \* history: len(db_items) once the rows are fetched, else None
    angle_ix,          \* index into Angles of the rotation to process next
    best,              \* local best: [book_id, score, rotation]
    all_scores,        \* local all_scores
    embs,              \* history: the embeddings extracted so far, one per rotation
    provider_raised,   \* an embedding extraction of this request raised
    lookup_missed,     \* the books lookup of this request returned no row
    outcome,           \* [result_type, score_gap] once classified, else << >>
    response,          \* the pair returned to the caller: [result, error]
    failure,           \* history: the kind of failure that ended the request, or ""
    fetches,           \* history: number of candidate fetches made by the request
    lookups,           \* history: the ids the request looked up in table books
    overlapped,        \* history: a handler of this process ran between fetch and return
    u_pairs,           \* unit harness: the scored pairs handed to the selector
    u_cartoon,         \* unit harness: the style flag
    u_out,             \* unit harness: the call's best, all_scores, score_gap, result_type
    u_prev,            \* unit harness: u_out of the previous call, or << >>
    s_emb,             \* scorer harness: the query embedding
    s_db_emb,          \* scorer harness: the stored vector
    s_out,             \* scorer harness: the score computed, or << >>
    pool_out,          \* pool harness: connections checked out of db_config.pool
    h_kind,            \* pool harness: the handler that is running, or ""
    h_pc,              \* pool harness: its position
    h_conn,            \* pool harness: its local conn, "none" or "held"
    et_conn,           \* pool harness: local conn of the ensure_table() it called
    h_suspended,       \* pool harness: the handler waiting at its await, or None
    h_calls,           \* pool harness: handler calls begun
    h_gets,            \* pool harness: connections obtained from get_connection
    h_returns,         \* pool harness: connections handed to return_connection
    cover_files,       \* admin harness: ids of the books with a file in static/covers
    a_last             \* admin harness: the latest call, its result and the state before it

vars == << clip_loaded, books, cover_embeddings, next_id, reg, deleted, last_write,
           pc, image_file,
           is_cartoon, conn, db_items, n_records, angle_ix, best, all_scores,
           embs, provider_raised, lookup_missed, outcome, response,
           failure, fetches, lookups, overlapped,
           u_pairs, u_cartoon, u_out, u_prev,
           s_emb, s_db_emb, s_out,
           pool_out, h_kind, h_pc, h_conn, et_conn, h_suspended, h_calls, h_gets,
           h_returns, cover_files, a_last >>

db_vars == << books, cover_embeddings, next_id, reg, deleted, last_write >>
req_vars == << pc, image_file, is_cartoon, conn, db_items, n_records, angle_ix, best,
               all_scores, embs, provider_raised, lookup_missed, outcome, response,
               failure, fetches, lookups >>
unit_vars == << u_pairs, u_cartoon, u_out, u_prev >>
score_vars == << s_emb, s_db_emb, s_out >>
pool_vars == << pool_out, h_kind, h_pc, h_conn, et_conn, h_suspended, h_calls, h_gets,
               h_returns >>
admin_vars == << cover_files, a_last >>

(***************************************************************************)
(* Bounds of the model.                                                    *)
(***************************************************************************)
MaxBooks == 2
MaxUnitLen == 2
MaxStoreIds == 3
MaxCalls == 3

(***************************************************************************)
(* Program constants, in hundredths.                                       *)
(***************************************************************************)
HIGH_STANDARD == 70
LOW_STANDARD == 55
MIN_GAP_STANDARD == 8
HIGH_CARTOON == 75
LOW_CARTOON == 60
MIN_GAP_CARTOON == 12
CARTOON_VARIANCE == 500

Angles == << 0, 90, 180, 270 >>
None == << >>
Some(i) == << i >>
EmptyDict == << >>

\* best = {"book_id": None, "score": -1.0, "rotation": 0}
InitialBest == [book_id |-> None, score |-> 0 - 100, rotation |-> 0]

(***************************************************************************)
(* Embeddings the provider can return (dimension 5 here, 768 in the        *)
(* deployment), and the vectors registered books can have.                 *)
(*                                                                         *)
(*            standard score        cartoon score                          *)
(*            vs V1    vs V2        vs V1    vs V2                         *)
(*    V1       100       0           100      12                           *)
(*    EmbB      70      55            49      38                           *)
(*    EmbC      62      70            43      49                           *)
(*    EmbE     100       0            75       4                           *)
(*    EmbF      95      30            66      21                           *)
(***************************************************************************)
V1 == << 1, 0, 0, 0, 0 >>
V2 == << 0, 1, 0, 0, 0 >>
EmbB == << 70, 55, 1, 7, 45 >>
EmbC == << 62, 70, 0, 10, 34 >>
EmbE == << 6, 0, 0, 0, 0 >>
EmbF == << 95, 30, 5, 5, 5 >>

QueryEmbeddings == { V1, EmbB, EmbC, EmbE, EmbF }
BookVectors == { V1, V2 }

(***************************************************************************)
(* Arithmetic.                                                             *)
(***************************************************************************)
RECURSIVE DotFrom(_, _, _)
DotFrom(a, b, i) ==
    IF i > Len(a) THEN 0 ELSE a[i] * b[i] + DotFrom(a, b, i + 1)

\* np.dot
Dot(a, b) == DotFrom(a, b, 1)

RECURSIVE ISqrtBetween(_, _, _)
ISqrtBetween(n, lo, hi) ==
    IF lo >= hi THEN lo
    ELSE LET mid == (lo + hi + 1) \div 2
         IN  IF mid * mid <= n THEN ISqrtBetween(n, mid, hi)
             ELSE ISqrtBetween(n, lo, mid - 1)

\* floor of the square root
ISqrt(n) == ISqrtBetween(n, 0, 20000)

\* np.linalg.norm
Norm(a) == ISqrt(Dot(a, a))

Diff(a, b) == [i \in 1..Len(a) |-> a[i] - b[i]]

\* np.linalg.norm(emb - db_emb), in hundredths
DistanceH(a, b) == ISqrt(10000 * Dot(Diff(a, b), Diff(a, b)))

\* variant without the normalisation by the two norms
CosineScore_unnormalised(emb, db_emb) == 100 * Dot(emb, db_emb)

\* dot / norm if norm else 0.0
CosineScore(emb, db_emb) ==
    LET dot == Dot(emb, db_emb)
        norm == Norm(emb) * Norm(db_emb)
    IN  IF norm # 0 THEN (100 * dot) \div norm ELSE 0

\* variant that adds the two similarities without the 0.7 / 0.3 weights
CartoonScore_unweighted(emb, db_emb) ==
    LET dot == Dot(emb, db_emb)
        norm == Norm(emb) * Norm(db_emb)
        dh == DistanceH(emb, db_emb)
    IN  IF norm # 0
        THEN (100 * (dot * (100 + dh) + 100 * norm)) \div (norm * (100 + dh))
        ELSE 10000 \div (100 + dh)

\* 0.7 * cosine_sim + 0.3 * (1 / (1 + euclidean_dist))
CartoonScore(emb, db_emb) ==
    LET dot == Dot(emb, db_emb)
        norm == Norm(emb) * Norm(db_emb)
        dh == DistanceH(emb, db_emb)
    IN  IF norm # 0
        THEN (10 * (7 * dot * (100 + dh) + 300 * norm)) \div (norm * (100 + dh))
        ELSE 3000 \div (100 + dh)

Score(cartoon, emb, db_emb) ==
    IF cartoon THEN CartoonScore(emb, db_emb) ELSE CosineScore(emb, db_emb)

(***************************************************************************)
(* The standard score of a vector against itself in the arithmetic of the  *)
(* code: emb and db_emb are float32 arrays (np.frombuffer(...,             *)
(* dtype=np.float32)), so np.dot and np.linalg.norm return float32, the    *)
(* product of the two norms is rounded to float32, and only the final      *)
(* division is done in double precision.  The vectors here have small      *)
(* integer components, so the dot product is exact and the roundings are   *)
(* those of the square root and of the product of the norms.  A value      *)
(* below 2^48 is held as [hi, lo], meaning hi * 2^24 + lo with lo < 2^24.  *)
(***************************************************************************)
Float32Digits == 24

RECURSIVE Pow2(_)
Pow2(n) == IF n = 0 THEN 1 ELSE 2 * Pow2(n - 1)

Unit24 == Pow2(Float32Digits)
Limb == Pow2(Float32Digits \div 2)

\* m * m for m < 2^24
WideSquare(m) ==
    LET mh == m \div Limb
        ml == m % Limb
        cross == 2 * mh * ml
        lo_raw == (cross % Limb) * Limb + ml * ml
    IN  [hi |-> mh * mh + cross \div Limb + lo_raw \div Unit24,
         lo |-> lo_raw % Unit24]

WideLeq(a, b) == a.hi < b.hi \/ (a.hi = b.hi /\ a.lo <= b.lo)

RECURSIVE Scale4(_)
\* s * 4^j, the j that brings it into [2^22, 2^24)
Scale4(s) == IF s >= Unit24 \div 4 THEN s ELSE Scale4(4 * s)

RECURSIVE FloorSqrtWide(_, _, _)
\* the largest f in lo..hi with f * f <= h * 2^24
FloorSqrtWide(h, lo, hi) ==
    IF lo >= hi THEN lo
    ELSE LET mid == (lo + hi + 1) \div 2
         IN  IF WideLeq(WideSquare(mid), [hi |-> h, lo |-> 0])
             THEN FloorSqrtWide(h, mid, hi)
             ELSE FloorSqrtWide(h, lo, mid - 1)

\* the 24-digit significand of the float32 nearest to sqrt(h * 2^24)
Float32SqrtSignificand(h) ==
    LET f == FloorSqrtWide(h, Unit24 \div 2, Unit24 - 1)
        sq == WideSquare(f)
        rest == (h - sq.hi) * Unit24 - sq.lo
    IN  IF rest <= f THEN f ELSE f + 1

\* k or k + 1: round to nearest, ties to even, of k + r / u
RoundNearestEven(k, r, u) ==
    IF 2 * r > u \/ (2 * r = u /\ k % 2 = 1) THEN k + 1 ELSE k

\* a value in [2^46, 2^48) rounded to 24 significant digits, in units of 2^23
Float32RoundWide(p) ==
    IF p.hi >= Unit24 \div 2
    THEN 2 * RoundNearestEven(p.hi, p.lo, Unit24)
    ELSE RoundNearestEven(2 * p.hi + p.lo \div (Unit24 \div 2),
                          p.lo % (Unit24 \div 2), Unit24 \div 2)

\* float(np.linalg.norm(v) * np.linalg.norm(v)), on the scale on which
\* float(np.dot(v, v)) is 2 * Scale4(Dot(v, v))
Float32SelfNorm(v) ==
    IF Dot(v, v) = 0 THEN 0
    ELSE Float32RoundWide(WideSquare(Float32SqrtSignificand(Scale4(Dot(v, v)))))

\* dot / norm if norm else 0.0 for emb = db_emb = v, as the pair (dot, norm)
\* on a common scale; the quotient is 1.0 exactly when the two are equal
Float32SelfCosine(v) ==
    LET norm == Float32SelfNorm(v)
    IN  [zero_norm |-> norm = 0,
         dot |-> IF Dot(v, v) = 0 THEN 0 ELSE 2 * Scale4(Dot(v, v)),
         norm |-> norm]

\* round(x * 100, 2) of a value in hundredths, in units of 0.01 percent
Percent2(x) == x * 100

(***************************************************************************)
(* detect_cartoon_book_simple: the variance of the three channel means     *)
(* exceeds 500.  var = (3 * sum of squares - square of sum) / 9.  An        *)
(* exception inside the analysis is caught and answered with False.        *)
(***************************************************************************)
ColorVariance9(rgb) ==
    3 * (rgb[1] * rgb[1] + rgb[2] * rgb[2] + rgb[3] * rgb[3])
      - (rgb[1] + rgb[2] + rgb[3]) * (rgb[1] + rgb[2] + rgb[3])

\* variant that takes a photo it cannot analyse for a cartoon
detect_cartoon_book_simple_default_cartoon(img) ==
    IF img.style_raises THEN TRUE
    ELSE ColorVariance9(img.rgb) > 9 * CARTOON_VARIANCE

\* except Exception: return False
detect_cartoon_book_simple(img) ==
    IF img.style_raises THEN FALSE
    ELSE ColorVariance9(img.rgb) > 9 * CARTOON_VARIANCE

(***************************************************************************)
(* Thresholds by style.                                                    *)
(***************************************************************************)
Thresholds(cartoon) ==
    IF cartoon
    THEN [high |-> HIGH_CARTOON, low |-> LOW_CARTOON, min_gap |-> MIN_GAP_CARTOON]
    ELSE [high |-> HIGH_STANDARD, low |-> LOW_STANDARD, min_gap |-> MIN_GAP_STANDARD]

(***************************************************************************)
(* MatchSelector: lines 579-582 for one (rotation, candidate) pair, and    *)
(* the inner loop of lines 559-582 for one rotation.                       *)
(***************************************************************************)
\* variant that lets an equal score replace the running best (last tie wins)
ReplacesBest_or_equal(score, best_score) == score >= best_score

\* if score > best["score"]
ReplacesBest(score, best_score) == score > best_score

Accumulate(acc, book_id, score, angle) ==
    [best |-> IF ReplacesBest(score, acc.best.score)
              THEN [book_id |-> Some(book_id), score |-> score, rotation |-> angle]
              ELSE acc.best,
     all_scores |-> Append(acc.all_scores, score)]

RECURSIVE ScanCandidates(_, _, _, _, _, _)
ScanCandidates(items, cartoon, emb, angle, acc, i) ==
    IF i > Len(items) THEN acc
    ELSE ScanCandidates(items, cartoon, emb, angle,
                        Accumulate(acc, items[i][1],
                                   Score(cartoon, emb, items[i][2]), angle),
                        i + 1)

(***************************************************************************)
(* ConfidenceClassifier: lines 587-610.                                    *)
(***************************************************************************)
RECURSIVE MaxFrom(_, _)
MaxFrom(s, i) ==
    IF i = Len(s) THEN s[i]
    ELSE LET m == MaxFrom(s, i + 1) IN IF s[i] >= m THEN s[i] ELSE m

\* max(all_scores), of a non-empty list
MaxOf(s) == MaxFrom(s, 1)

RECURSIVE InsertDesc(_, _)
InsertDesc(x, s) ==
    IF s = << >> THEN << x >>
    ELSE IF x >= Head(s) THEN << x >> \o s
    ELSE << Head(s) >> \o InsertDesc(x, Tail(s))

RECURSIVE SortedDesc(_)
\* sorted(all_scores, reverse=True)
SortedDesc(s) ==
    IF s = << >> THEN << >> ELSE InsertDesc(Head(s), SortedDesc(Tail(s)))

\* variant that takes the second-largest distinct value (0 when there is none)
SecondMax_distinct(s) ==
    LET below == { s[i] : i \in DOMAIN s } \ { MaxOf(s) }
    IN  IF below = {} THEN 0
        ELSE CHOOSE x \in below : \A y \in below : x >= y

\* sorted(all_scores, reverse=True)[1] if len(all_scores) > 1 else 0
SecondMax(s) == IF Len(s) > 1 THEN SortedDesc(s)[2] ELSE 0

\* score_gap = max_score - second_max
ScoreGap(s) == MaxOf(s) - SecondMax(s)

\* truth value of best["book_id"]
Truthy(book_id) == book_id # None /\ book_id[1] # 0

\* variant whose high threshold is exclusive
ResultType_exclusive_high(b, score_gap, t) ==
    IF Truthy(b.book_id) /\ b.score > t.high /\ score_gap >= t.min_gap
    THEN "high_confidence"
    ELSE IF Truthy(b.book_id) /\ b.score >= t.low /\ score_gap >= t.min_gap
    THEN "medium_confidence"
    ELSE IF Truthy(b.book_id) /\ b.score >= t.low
    THEN "low_confidence_similar"
    ELSE "unknown_book"

\* variant that downgrades by one tier when the gap is short
ResultType_one_tier(b, score_gap, t) ==
    IF Truthy(b.book_id) /\ b.score >= t.high /\ score_gap >= t.min_gap
    THEN "high_confidence"
    ELSE IF Truthy(b.book_id) /\ b.score >= t.high
    THEN "medium_confidence"
    ELSE IF Truthy(b.book_id) /\ b.score >= t.low /\ score_gap >= t.min_gap
    THEN "medium_confidence"
    ELSE IF Truthy(b.book_id) /\ b.score >= t.low
    THEN "low_confidence_similar"
    ELSE "unknown_book"

ResultType(b, score_gap, t) ==
    IF Truthy(b.book_id) /\ b.score >= t.high /\ score_gap >= t.min_gap
    THEN "high_confidence"
    ELSE IF Truthy(b.book_id) /\ b.score >= t.low /\ score_gap >= t.min_gap
    THEN "medium_confidence"
    ELSE IF Truthy(b.book_id) /\ b.score >= t.low
    THEN "low_confidence_similar"
    ELSE "unknown_book"

\* lines 587-610; score_gap stays unbound (None) when all_scores is empty
Classify(b, scores, cartoon) ==
    IF scores # << >>
    THEN [result_type |-> ResultType(b, ScoreGap(scores), Thresholds(cartoon)),
          score_gap |-> Some(ScoreGap(scores))]
    ELSE [result_type |-> "unknown_book", score_gap |-> None]

(***************************************************************************)
(* ResultBuilder: lines 612-673.  Free-text fields (title, isbn, url,      *)
(* warning, suggestion) are left out of the dictionaries.                  *)
(***************************************************************************)
MSG_CLIP == "CLIP model not initialised"
MSG_FILE == "invalid file object"
MSG_NO_RECORDS == "no book records in database"
MSG_NO_MATCH == "no matching book found"
MSG_EXCEPTION == "error during identification: "

ComparisonMethod(cartoon) ==
    IF cartoon THEN "CLIP rotation enhanced (cartoon mode)"
    ELSE "CLIP rotation enhanced"

\* round(score_gap * 100, 2) if 'score_gap' in locals() else 0
GapField(o) == IF o.score_gap # None THEN Percent2(o.score_gap[1]) ELSE 0

UnknownResult(b, cartoon) ==
    [unknown_book |-> TRUE,
     best_match_score |-> Percent2(b.score),
     action_needed |-> "add_new_book",
     cartoon_detected |-> cartoon]

\* variant without the please-confirm flag
UncertainResult_unflagged(b, o, cartoon) ==
    [id |-> b.book_id[1],
     similarity_score |-> Percent2(b.score),
     comparison_method |-> ComparisonMethod(cartoon),
     rotation_angle |-> b.rotation,
     details |-> [confidence_level |-> "low",
                  score_gap |-> GapField(o),
                  cartoon_detected |-> cartoon,
                  gap_required |-> Percent2(Thresholds(cartoon).min_gap)]]

UncertainResult(b, o, cartoon) ==
    [uncertain_match |-> TRUE,
     id |-> b.book_id[1],
     similarity_score |-> Percent2(b.score),
     comparison_method |-> ComparisonMethod(cartoon),
     rotation_angle |-> b.rotation,
     details |-> [confidence_level |-> "low",
                  score_gap |-> GapField(o),
                  cartoon_detected |-> cartoon,
                  gap_required |-> Percent2(Thresholds(cartoon).min_gap)]]

\* variant that always reports the upright rotation
ConfirmedResult_upright(b, o, cartoon) ==
    [id |-> b.book_id[1],
     similarity_score |-> Percent2(b.score),
     comparison_method |-> ComparisonMethod(cartoon),
     rotation_angle |-> 0,
     details |-> [confidence_level |->
                      IF o.result_type = "high_confidence" THEN "high" ELSE "medium",
                  score_gap |-> GapField(o),
                  cartoon_detected |-> cartoon]]

ConfirmedResult(b, o, cartoon) ==
    [id |-> b.book_id[1],
     similarity_score |-> Percent2(b.score),
     comparison_method |-> ComparisonMethod(cartoon),
     rotation_angle |-> b.rotation,
     details |-> [confidence_level |->
                      IF o.result_type = "high_confidence" THEN "high" ELSE "medium",
                  score_gap |-> GapField(o),
                  cartoon_detected |-> cartoon]]

\* variant that looks the winner up on every path
NeedsLookup_always(o) == TRUE

\* the books lookup of lines 625 and 651 is made on every path but unknown_book
NeedsLookup(o) == o.result_type # "unknown_book"

BuildResult(b, o, cartoon, row_found) ==
    IF o.result_type = "unknown_book"
    THEN [result |-> UnknownResult(b, cartoon), error |-> ""]
    ELSE IF o.result_type = "low_confidence_similar"
    THEN IF row_found
         THEN [result |-> UncertainResult(b, o, cartoon), error |-> ""]
         ELSE [result |-> EmptyDict, error |-> MSG_NO_MATCH]
    ELSE IF row_found
         THEN [result |-> ConfirmedResult(b, o, cartoon), error |-> ""]
         ELSE [result |-> EmptyDict, error |-> MSG_NO_MATCH]

\* variant that answers a failure with an unknown-book result
ExceptionResponse_as_unknown(what) ==
    [result |-> [unknown_book |-> TRUE, action_needed |-> "add_new_book"],
     error |-> ""]

\* except Exception as e: return {}, f"... {str(e)}"
ExceptionResponse(what) == [result |-> EmptyDict, error |-> MSG_EXCEPTION \o what]

\* api_identify_book, lines 896-909
ApiIdentifyBook(r) ==
    IF r.result # EmptyDict
    THEN [success |-> TRUE, book |-> r.result, message |-> "identified"]
    ELSE [success |-> FALSE,
          message |-> IF r.error # "" THEN r.error ELSE MSG_NO_MATCH]

(***************************************************************************)
(* Inputs of a match request: a file object without read(), bytes that do  *)
(* not decode, and photos given by their channel means (variance 416 and   *)
(* 600 across the three means); style_raises marks a photo on which the    *)
(* colour analysis raises.                                                 *)
(***************************************************************************)
NoFile == [kind |-> "none", rgb |-> << 0, 0, 0 >>, style_raises |-> FALSE]

ImageFiles ==
    { [kind |-> "no_read", rgb |-> << 0, 0, 0 >>, style_raises |-> FALSE],
      [kind |-> "undecodable", rgb |-> << 0, 0, 0 >>, style_raises |-> FALSE],
      [kind |-> "photo", rgb |-> << 125, 100, 75 >>, style_raises |-> FALSE],
      [kind |-> "photo", rgb |-> << 130, 100, 70 >>, style_raises |-> FALSE],
      [kind |-> "photo", rgb |-> << 130, 100, 70 >>, style_raises |-> TRUE] }

\* hasattr(image_file, "read")
HasRead(f) == f.kind # "no_read"

\* variant in which bytes that are not an image decode to a blank picture
Decodes_anything(f) == f.kind \in {"photo", "undecodable"}

\* Image.open(io.BytesIO(img_bytes)).convert("RGB") returns
Decodes(f) == f.kind = "photo"

(***************************************************************************)
(* The text str(e) of the exception a stage can raise.  A stage has a text *)
(* of its own, and any stage that allocates image or tensor memory can     *)
(* raise MemoryError, whose text is empty.                                 *)
(***************************************************************************)
DecodeErrors == { "cannot identify image file", "" }
ExtractionErrors == { "embedding provider failed", "" }
DatabaseErrors == { "database error" }

(***************************************************************************)
(* The store.  Table cover_embeddings is a set of rows << book_id,         *)
(* vector >>; table books is the set of its ids.                           *)
(***************************************************************************)
RowIds(rows) == { r[1] : r \in rows }

\* the orders in which SELECT book_id, vector FROM cover_embeddings may list the rows
RowOrders(rows) ==
    { f \in [1..Cardinality(rows) -> rows] :
        \A i, j \in DOMAIN f : i # j => f[i] # f[j] }

\* db_items for one order of the rows
Items(rows, order) == [i \in DOMAIN order |-> order[i]]

\* variant that adds the row and keeps a row already stored for the identifier
Upsert_keeping_old(rows, book_id, v) == rows \cup { << book_id, v >> }

\* INSERT INTO cover_embeddings ... ON CONFLICT (book_id) DO UPDATE SET vector
Upsert(rows, book_id, v) ==
    { r \in rows : r[1] # book_id } \cup { << book_id, v >> }

\* variant without ON DELETE CASCADE: the embedding row stays
CascadeDelete_keeping_rows(rows, b) == rows

\* DELETE FROM books WHERE id = b, with ON DELETE CASCADE
CascadeDelete(rows, b) == { r \in rows : r[1] # b }

\* variant in which every statement of a connection commits on its own
AutoCommit_on == TRUE

\* conn.autocommit: the writes of a connection stay pending until conn.commit()
AutoCommit == FALSE

RegIdle == [pc |-> "idle", book_id |-> None, vector |-> None]

(***************************************************************************)
(* Who runs a step that is not part of the match request: another handler  *)
(* of this server process, or another client of the database.  A handler   *)
(* of this process runs only while no coroutine holds the event loop: the  *)
(* match request has not started, has returned, or is suspended in         *)
(* `await read_fn()`, its only await.                                      *)
(***************************************************************************)
Origins == { "handler", "client" }

\* variant in which the request also yields the event loop after the fetch
LoopFree_during_scan == pc \in {"idle", "read_image", "done", "scan", "classify"}

LoopFree == pc \in {"idle", "read_image", "done"}

MayRun(origin) == origin = "handler" => LoopFree

\* a handler of this process ran after the candidate fetch and before the return
Overlaps(origin) == origin = "handler" /\ fetches > 0 /\ pc # "done"

IdleLocals ==
    /\ image_file = NoFile
    /\ is_cartoon = FALSE
    /\ conn = "none"
    /\ db_items = << >>
    /\ n_records = None
    /\ angle_ix = 1
    /\ best = InitialBest
    /\ all_scores = << >>
    /\ embs = << >>
    /\ provider_raised = FALSE
    /\ lookup_missed = FALSE
    /\ outcome = << >>
    /\ response = << >>
    /\ failure = ""
    /\ fetches = 0
    /\ lookups = << >>
    /\ overlapped = FALSE

EmptyDatabase ==
    /\ books = {}
    /\ cover_embeddings = {}
    /\ next_id = 1
    /\ reg = RegIdle
    /\ deleted = {}
    /\ last_write = None

AdminIdle ==
    /\ cover_files = {}
    /\ a_last = None

PoolIdle ==
    /\ pool_out = 0
    /\ h_kind = ""
    /\ h_pc = "idle"
    /\ h_conn = "none"
    /\ et_conn = "none"
    /\ h_suspended = None
    /\ h_calls = 0
    /\ h_gets = 0
    /\ h_returns = 0

ScoreIdle ==
    /\ s_emb = << >>
    /\ s_db_emb = << >>
    /\ s_out = << >>

UnitIdle ==
    /\ u_pairs = << >>
    /\ u_cartoon = FALSE
    /\ u_out = << >>
    /\ u_prev = << >>

Init ==
    /\ clip_loaded \in BOOLEAN
    /\ EmptyDatabase
    /\ pc = "idle"
    /\ IdleLocals
    /\ UnitIdle
    /\ ScoreIdle
    /\ PoolIdle
    /\ AdminIdle

(***************************************************************************)
(* The other handlers, by their effect on the database.  Their steps       *)
(* commute with the steps of a match request that do not touch the         *)
(* database, so a registration is begun before the candidate fetch and its *)
(* later steps are taken before the fetch or right after it, and a delete  *)
(* is taken before the request or between the fetch                        *)
(* and the books lookup.  The lookup reads the winner's row only, so of    *)
(* the deletes during a request only the winner's is taken, and only when  *)
(* the request goes on to the lookup.                                      *)
(***************************************************************************)
BeforeFetch == pc \in {"idle", "ensure_table", "read_image", "load_vectors"}

RegistrationPoint == BeforeFetch \/ (pc = "scan" /\ angle_ix = 1)

\* save_book_with_rotation_enhanced, lines 412-448: INSERT INTO books
\* RETURNING id, on a connection of its own
SaveBookInsert ==
    /\ BeforeFetch
    /\ clip_loaded
    /\ reg = RegIdle
    /\ next_id <= MaxBooks
    /\ \E origin \in Origins :
         /\ MayRun(origin)
         /\ overlapped' = (overlapped \/ Overlaps(origin))
    /\ reg' = [pc |-> "books_inserted", book_id |-> Some(next_id), vector |-> None]
    /\ next_id' = next_id + 1
    /\ books' = IF AutoCommit THEN books \cup {next_id} ELSE books
    /\ UNCHANGED << clip_loaded, cover_embeddings, deleted, last_write, req_vars, unit_vars,
                    score_vars, pool_vars, admin_vars >>

\* lines 451-472 and 480-485: the embedding is extracted and written, or an
\* exception rolls the transaction back
SaveBookEmbed ==
    /\ RegistrationPoint
    /\ reg.pc = "books_inserted"
    /\ \E origin \in Origins :
         /\ MayRun(origin)
         /\ overlapped' = (overlapped \/ Overlaps(origin))
    /\ \/ /\ reg' = RegIdle
          /\ UNCHANGED cover_embeddings
       \/ \E v \in BookVectors :
            /\ reg' = [reg EXCEPT !.pc = "vector_inserted", !.vector = v]
            /\ cover_embeddings' =
                   IF AutoCommit
                   THEN Upsert(cover_embeddings, reg.book_id[1], v)
                   ELSE cover_embeddings
    /\ UNCHANGED << clip_loaded, books, next_id, deleted, last_write, req_vars, unit_vars,
                    score_vars, pool_vars, admin_vars >>

\* lines 477-485: conn.commit() makes both rows visible together, or raises
\* and the transaction is rolled back
SaveBookCommit ==
    /\ RegistrationPoint
    /\ reg.pc = "vector_inserted"
    /\ \E origin \in Origins :
         /\ MayRun(origin)
         /\ overlapped' = (overlapped \/ Overlaps(origin))
    /\ \/ /\ books' = books \cup {reg.book_id[1]}
          /\ cover_embeddings' = Upsert(cover_embeddings, reg.book_id[1], reg.vector)
       \/ UNCHANGED << books, cover_embeddings >>
    /\ reg' = RegIdle
    /\ UNCHANGED << clip_loaded, next_id, deleted, last_write, req_vars, unit_vars,
                    score_vars, pool_vars, admin_vars >>

\* api_delete_book, lines 1053-1055: DELETE FROM books, cascading to
\* cover_embeddings
DeleteBook ==
    /\ pc \in {"idle", "read_image", "classify"}
    /\ \E origin \in Origins, b \in books :
         /\ MayRun(origin)
         /\ pc = "classify" =>
               /\ best.book_id = Some(b)
               /\ NeedsLookup(Classify(best, all_scores, is_cartoon))
         /\ overlapped' = (overlapped \/ Overlaps(origin))
         /\ books' = books \ {b}
         /\ cover_embeddings' = CascadeDelete(cover_embeddings, b)
         /\ deleted' = deleted \cup {b}
    /\ UNCHANGED << clip_loaded, next_id, reg, last_write, req_vars, unit_vars,
                    score_vars, pool_vars, admin_vars >>

(***************************************************************************)
(* identify_book_with_rotation_enhanced, lines 490-681.                    *)
(***************************************************************************)
\* a return or the except clause, then finally: the connection goes back
Return(r, kind) ==
    /\ response' = r
    /\ failure' = kind
    /\ conn' = "none"
    /\ pc' = "done"

\* a return from the except clause of lines 675-678
Raise(texts, kind) == \E what \in texts : Return(ExceptionResponse(what), kind)

\* the request goes on to the next stage
Goto(stage) ==
    /\ pc' = stage
    /\ UNCHANGED << conn, response, failure >>

\* lines 494-496
StartRequest ==
    /\ pc = "idle"
    /\ \E f \in ImageFiles : image_file' = f
    /\ IF clip_loaded
       THEN Goto("ensure_table")
       ELSE Return([result |-> EmptyDict, error |-> MSG_CLIP], "ProviderUnavailable")
    /\ UNCHANGED << clip_loaded, db_vars, overlapped, is_cartoon, db_items, n_records,
                    angle_ix, best, all_scores, embs, provider_raised, lookup_missed,
                    outcome, fetches, lookups, unit_vars,
                    score_vars, pool_vars, admin_vars >>

\* line 498: ensure_table() returns or raises
EnsureTableStep ==
    /\ pc = "ensure_table"
    /\ \E db_ok \in BOOLEAN :
         IF db_ok THEN Goto("read_image") ELSE Raise(DatabaseErrors, "StoreError")
    /\ UNCHANGED << clip_loaded, db_vars, overlapped, image_file, is_cartoon, db_items,
                    n_records, angle_ix, best, all_scores, embs, provider_raised,
                    lookup_missed, outcome, fetches, lookups, unit_vars,
                    score_vars, pool_vars, admin_vars >>

\* lines 500-513
ReadImage ==
    /\ pc = "read_image"
    /\ IF ~HasRead(image_file)
       THEN /\ Return([result |-> EmptyDict, error |-> MSG_FILE], "InvalidFile")
            /\ UNCHANGED is_cartoon
       ELSE IF ~Decodes(image_file)
       THEN /\ Raise(DecodeErrors, "InvalidImage")
            /\ UNCHANGED is_cartoon
       ELSE /\ is_cartoon' = detect_cartoon_book_simple(image_file)
            /\ Goto("load_vectors")
    /\ UNCHANGED << clip_loaded, db_vars, overlapped, image_file, db_items, n_records,
                    angle_ix, best, all_scores, embs, provider_raised, lookup_missed,
                    outcome, fetches, lookups, unit_vars,
                    score_vars, pool_vars, admin_vars >>

\* lines 517-551
LoadVectors ==
    /\ pc = "load_vectors"
    /\ \E db_ok \in BOOLEAN :
         IF ~db_ok
         THEN /\ Raise(DatabaseErrors, "StoreError")
              /\ UNCHANGED << db_items, n_records, fetches >>
         ELSE \E order \in RowOrders(cover_embeddings) :
                /\ db_items' = Items(cover_embeddings, order)
                /\ n_records' = Some(Len(db_items'))
                /\ fetches' = fetches + 1
                /\ IF db_items' = << >>
                   THEN Return([result |-> EmptyDict, error |-> MSG_NO_RECORDS],
                               "EmptyStore")
                   ELSE /\ conn' = "held"
                        /\ pc' = "scan"
                        /\ UNCHANGED << response, failure >>
    /\ UNCHANGED << clip_loaded, db_vars, overlapped, image_file, is_cartoon, angle_ix,
                    best, all_scores, embs, provider_raised, lookup_missed, outcome,
                    lookups, unit_vars,
                    score_vars, pool_vars, admin_vars >>

\* lines 553-582, one rotation: the extraction, then the scan of db_items
ScanRotation ==
    /\ pc = "scan"
    /\ \/ /\ provider_raised' = TRUE
          /\ Raise(ExtractionErrors, "ProviderUnavailable")
          /\ UNCHANGED << angle_ix, best, all_scores, embs >>
       \/ \E emb \in QueryEmbeddings :
            LET acc == ScanCandidates(db_items, is_cartoon, emb, Angles[angle_ix],
                                      [best |-> best, all_scores |-> all_scores], 1)
            IN  /\ best' = acc.best
                /\ all_scores' = acc.all_scores
                /\ embs' = Append(embs, emb)
                /\ angle_ix' = angle_ix + 1
                /\ Goto(IF angle_ix = Len(Angles) THEN "classify" ELSE "scan")
                /\ UNCHANGED provider_raised
    /\ UNCHANGED << clip_loaded, db_vars, overlapped, image_file, is_cartoon, db_items,
                    n_records, lookup_missed, outcome, fetches, lookups, unit_vars,
                    score_vars, pool_vars, admin_vars >>

\* lines 584-673
ClassifyAndRespond ==
    /\ pc = "classify"
    /\ LET o == Classify(best, all_scores, is_cartoon)
       IN  /\ outcome' = o
           /\ IF NeedsLookup(o)
              THEN /\ lookups' = Append(lookups, best.book_id[1])
                   /\ \E db_ok \in BOOLEAN :
                        IF db_ok
                        THEN /\ lookup_missed' = (best.book_id[1] \notin books)
                             /\ Return(BuildResult(best, o, is_cartoon,
                                                   best.book_id[1] \in books),
                                       IF best.book_id[1] \in books THEN ""
                                       ELSE "MetadataInconsistency")
                        ELSE /\ Raise(DatabaseErrors, "StoreError")
                             /\ UNCHANGED lookup_missed
              ELSE /\ Return(BuildResult(best, o, is_cartoon, FALSE), "")
                   /\ UNCHANGED << lookup_missed, lookups >>
    /\ UNCHANGED << clip_loaded, db_vars, overlapped, image_file, is_cartoon, db_items,
                    n_records, angle_ix, best, all_scores, embs, provider_raised,
                    fetches, unit_vars,
                    score_vars, pool_vars, admin_vars >>

Next ==
    \/ SaveBookInsert
    \/ SaveBookEmbed
    \/ SaveBookCommit
    \/ DeleteBook
    \/ StartRequest
    \/ EnsureTableStep
    \/ ReadImage
    \/ LoadVectors
    \/ ScanRotation
    \/ ClassifyAndRespond

Spec == Init /\ [][Next]_vars

(***************************************************************************)
(* The selector and the classifier on their own (lines 550-610), applied   *)
(* to arbitrary scored (identifier, score) pairs: any list length from 0,  *)
(* identifiers including 0, negative scores.  Two calls are made in a row  *)
(* and the first one's summary is kept, so that calls can be compared.     *)
(***************************************************************************)
UnitIds == { 0, 1 }
UnitScores == { 0 - 10, 60, 70, 100 }

RECURSIVE PairLists(_)
PairLists(n) ==
    IF n = 0 THEN { << >> }
    ELSE LET shorter == PairLists(n - 1)
         IN  shorter \cup
             { Append(l, << b, x >>) :
                 l \in { k \in shorter : Len(k) = n - 1 },
                 b \in UnitIds, x \in UnitScores }

UnitInputs == PairLists(MaxUnitLen)

RECURSIVE SelectFrom(_, _, _)
\* lines 550-582 over already scored pairs, all at rotation 0
SelectFrom(pairs, acc, i) ==
    IF i > Len(pairs) THEN acc
    ELSE SelectFrom(pairs, Accumulate(acc, pairs[i][1], pairs[i][2], 0), i + 1)

UnitRun(pairs, cartoon) ==
    LET acc == SelectFrom(pairs, [best |-> InitialBest, all_scores |-> << >>], 1)
        o == Classify(acc.best, acc.all_scores, cartoon)
    IN  [best |-> acc.best,
         all_scores |-> acc.all_scores,
         score_gap |-> o.score_gap,
         result_type |-> o.result_type,
         cartoon |-> cartoon]

UnitInit ==
    /\ clip_loaded = TRUE
    /\ EmptyDatabase
    /\ pc = "idle"
    /\ IdleLocals
    /\ u_pairs \in UnitInputs
    /\ u_cartoon \in BOOLEAN
    /\ u_out = << >>
    /\ u_prev = << >>
    /\ ScoreIdle
    /\ PoolIdle
    /\ AdminIdle

\* one call of the selector and the classifier
UnitClassify ==
    /\ u_out = << >>
    /\ u_out' = UnitRun(u_pairs, u_cartoon)
    /\ UNCHANGED << clip_loaded, db_vars, req_vars, overlapped, u_pairs, u_cartoon,
                    u_prev, score_vars, pool_vars, admin_vars >>

\* the next call, on fresh inputs
UnitNextCall ==
    /\ u_out # << >>
    /\ u_prev = << >>
    /\ u_prev' = u_out
    /\ u_out' = << >>
    /\ u_pairs' \in UnitInputs
    /\ u_cartoon' \in BOOLEAN
    /\ UNCHANGED << clip_loaded, db_vars, req_vars, overlapped, score_vars, pool_vars,
                    admin_vars >>

UnitNext ==
    \/ UnitClassify
    \/ UnitNextCall

UnitSpec == UnitInit /\ [][UnitNext]_vars

(***************************************************************************)
(* The embedding store on its own: the statements that write tables books  *)
(* and cover_embeddings, applied in any order and to any identifier that   *)
(* has a books row, so that a vector is also written for an identifier     *)
(* that already has one.                                                   *)
(***************************************************************************)
StoreInit ==
    /\ clip_loaded = TRUE
    /\ EmptyDatabase
    /\ pc = "idle"
    /\ IdleLocals
    /\ UnitIdle
    /\ ScoreIdle
    /\ PoolIdle
    /\ AdminIdle

\* INSERT INTO books ... RETURNING id
StoreAddBook ==
    /\ next_id <= MaxStoreIds
    /\ books' = books \cup {next_id}
    /\ next_id' = next_id + 1
    /\ UNCHANGED << clip_loaded, cover_embeddings, reg, deleted, last_write, req_vars,
                    overlapped, unit_vars,
                    score_vars, pool_vars, admin_vars >>

\* INSERT INTO cover_embeddings ... ON CONFLICT (book_id) DO UPDATE, for an
\* identifier that satisfies the foreign key
StoreWriteVector ==
    /\ \E b \in books, v \in BookVectors :
         /\ cover_embeddings' = Upsert(cover_embeddings, b, v)
         /\ last_write' = [book_id |-> b, vector |-> v,
                           replaced |-> { r \in cover_embeddings : r[1] = b }]
    /\ UNCHANGED << clip_loaded, books, next_id, reg, deleted, req_vars, overlapped,
                    unit_vars,
                    score_vars, pool_vars, admin_vars >>

\* DELETE FROM books WHERE id = b
StoreDeleteBook ==
    /\ \E b \in books :
         /\ books' = books \ {b}
         /\ cover_embeddings' = CascadeDelete(cover_embeddings, b)
         /\ last_write' = IF last_write # None /\ last_write.book_id = b
                          THEN None ELSE last_write
    /\ UNCHANGED << clip_loaded, next_id, reg, deleted, req_vars, overlapped, unit_vars,
                    score_vars, pool_vars, admin_vars >>

StoreNext ==
    \/ StoreAddBook
    \/ StoreWriteVector
    \/ StoreDeleteBook

StoreSpec == StoreInit /\ [][StoreNext]_vars

(***************************************************************************)
(* The scorer on its own: lines 561-577 applied to one pair of vectors of  *)
(* equal dimension, with negative components and the zero vector.  The     *)
(* scaled-integer scores are exact for vectors whose norm is an integer;   *)
(* the float32 self-score takes any of the vectors.                        *)
(***************************************************************************)
ScoreVectors ==
    { << 0, 0, 0, 0, 0 >>, V1, << 0 - 1, 0, 0, 0, 0 >>, EmbE, << 0 - 6, 0, 0, 0, 0 >>,
      << 3, 4, 0, 0, 0 >>, << 0 - 3, 0 - 4, 0, 0, 0 >>, << 1, 1, 0, 0, 0 >>,
      << 0 - 1, 0 - 1, 0, 0, 0 >>, << 1, 2, 3, 0, 0 >>, << 1, 6, 0, 0, 0 >> }

ExactNorm(v) == Norm(v) * Norm(v) = Dot(v, v)

ScoreInit ==
    /\ clip_loaded = TRUE
    /\ EmptyDatabase
    /\ pc = "idle"
    /\ IdleLocals
    /\ UnitIdle
    /\ s_emb \in ScoreVectors
    /\ s_db_emb \in ScoreVectors
    /\ s_out = << >>
    /\ PoolIdle
    /\ AdminIdle

\* one pass through the body of the inner loop, lines 561-577
ScorePair ==
    /\ s_out = << >>
    /\ ExactNorm(s_emb)
    /\ ExactNorm(s_db_emb)
    /\ \E cartoon \in BOOLEAN :
         s_out' = [kind |-> IF cartoon THEN "cartoon" ELSE "standard",
                   score |-> Score(cartoon, s_emb, s_db_emb)]
    /\ UNCHANGED << clip_loaded, db_vars, req_vars, overlapped, unit_vars,
                    s_emb, s_db_emb, pool_vars, admin_vars >>

\* lines 575-577 for a stored vector that is the query embedding itself
ScoreSelf ==
    /\ s_out = << >>
    /\ s_db_emb = s_emb
    /\ s_out' = [kind |-> "self", cosine |-> Float32SelfCosine(s_emb)]
    /\ UNCHANGED << clip_loaded, db_vars, req_vars, overlapped, unit_vars,
                    s_emb, s_db_emb, pool_vars, admin_vars >>

Negate(v) == [i \in 1..Len(v) |-> 0 - v[i]]

\* dot / norm if norm else 0.0 for db_emb = emb or db_emb = -emb: the dot
\* product changes sign, the norms do not
Float32AlignedCosine(emb, db_emb) ==
    LET c == Float32SelfCosine(emb)
    IN  IF db_emb = emb THEN c ELSE [c EXCEPT !.dot = 0 - c.dot]

RECURSIVE ScanSame(_, _, _)
\* the loop of lines 553-582 over one candidate, the provider returning the
\* same embedding at each angle
ScanSame(score, acc, k) ==
    IF k > Len(Angles) THEN acc
    ELSE ScanSame(score, Accumulate(acc, 1, score, Angles[k]), k + 1)

\* lines 550-582 for db_items = [(1, db_emb)] with db_emb = emb or -emb, in
\* float32: every score and the initial -1.0 are written as numerators over
\* the common denominator scale (the rounded product of the norms)
ScoreScan ==
    /\ s_out = << >>
    /\ s_db_emb \in { s_emb, Negate(s_emb) }
    /\ LET c == Float32AlignedCosine(s_emb, s_db_emb)
           scale == IF c.zero_norm THEN 1 ELSE c.norm
           score == IF c.zero_norm THEN 0 ELSE c.dot
           acc == ScanSame(score,
                           [best |-> [InitialBest EXCEPT !.score = 0 - scale],
                            all_scores |-> << >>], 1)
       IN  s_out' = [kind |-> "scan", scale |-> scale, best |-> acc.best,
                     all_scores |-> acc.all_scores]
    /\ UNCHANGED << clip_loaded, db_vars, req_vars, overlapped, unit_vars,
                    s_emb, s_db_emb, pool_vars, admin_vars >>

ScoreNext ==
    \/ ScorePair
    \/ ScoreSelf
    \/ ScoreScan

ScoreSpec == ScoreInit /\ [][ScoreNext]_vars

(***************************************************************************)
(* The connection pool on its own: the handlers by what they do with       *)
(* db_config.get_connection and db_config.return_connection.  Every        *)
(* handler is "conn = None; try: ... finally: if conn: return_connection". *)
(* The handlers are coroutines of one event loop and the database calls    *)
(* are synchronous, so a second handler runs only while the first waits at *)
(* its await (the read of the uploaded image, lines 423 and 504), which    *)
(* comes after ensure_table() and before the handler's get_connection().   *)
(***************************************************************************)
HandlerKinds == { "identify", "save_book", "books", "delete", "report", "ensure_table" }

\* handlers that return at once when the model is not loaded (414-415, 494-496)
ChecksModel == { "identify", "save_book" }
\* handlers that call ensure_table() first (143, 418, 498, 966)
EnsuresTable == { "identify", "save_book", "books", "ensure_table" }
\* handlers that await the image (423, 504)
Awaits == { "identify", "save_book" }
\* handlers that can finish without a connection of their own: an early
\* return or a decode error (434, 508-510), no book_id (1243), and
\* ensure_table() called on its own (143)
LeavesBeforeAcquire == { "identify", "save_book", "report", "ensure_table" }

\* self.pool.getconn()
GetConnection(n) == n + 1

\* variant of the finally clause that does not give the connection back
ReturnConnection_dropped(n, c) == n

\* finally: if conn: db_config.return_connection(conn)
ReturnConnection(n, c) == IF c = "held" THEN n - 1 ELSE n

Held(c) == IF c = "held" THEN 1 ELSE 0

PoolInit ==
    /\ clip_loaded = TRUE
    /\ EmptyDatabase
    /\ pc = "idle"
    /\ IdleLocals
    /\ UnitIdle
    /\ ScoreIdle
    /\ PoolIdle
    /\ AdminIdle

PoolFrame == UNCHANGED << clip_loaded, db_vars, req_vars, overlapped, unit_vars,
                          score_vars, admin_vars >>

\* a request arrives: conn = None
PoolCall ==
    /\ h_pc = "idle"
    /\ h_calls < MaxCalls
    /\ \E kind \in HandlerKinds : h_kind' = kind
    /\ h_pc' = "entry"
    /\ h_calls' = h_calls + 1
    /\ PoolFrame
    /\ UNCHANGED << pool_out, h_conn, et_conn, h_suspended, h_gets, h_returns >>

\* the model check, then the call of ensure_table()
PoolEntry ==
    /\ h_pc = "entry"
    /\ \/ h_kind \in ChecksModel /\ h_pc' = "finally"
       \/ h_pc' = IF h_kind \in EnsuresTable THEN "et_acquire" ELSE "before_acquire"
    /\ PoolFrame
    /\ UNCHANGED << pool_out, h_kind, h_conn, et_conn, h_suspended, h_calls, h_gets,
                    h_returns >>

\* ensure_table, lines 258-260: get_connection() returns or raises
PoolEnsureTableAcquire ==
    /\ h_pc = "et_acquire"
    /\ \/ /\ h_pc' = "finally"
          /\ UNCHANGED << pool_out, et_conn, h_gets >>
       \/ /\ et_conn' = "held"
          /\ pool_out' = GetConnection(pool_out)
          /\ h_gets' = h_gets + 1
          /\ h_pc' = "et_body"
    /\ PoolFrame
    /\ UNCHANGED << h_kind, h_conn, h_suspended, h_calls, h_returns >>

\* ensure_table, lines 261-358: commit and return, or rollback and raise;
\* the finally clause gives the connection back either way
PoolEnsureTableFinish ==
    /\ h_pc = "et_body"
    /\ pool_out' = ReturnConnection(pool_out, et_conn)
    /\ h_returns' = h_returns + Held(et_conn)
    /\ et_conn' = "none"
    /\ h_pc' \in { "before_acquire", "finally" }
    /\ PoolFrame
    /\ UNCHANGED << h_kind, h_conn, h_suspended, h_calls, h_gets >>

\* a return or an exception before the handler's get_connection()
PoolLeave ==
    /\ h_pc = "before_acquire"
    /\ h_kind \in LeavesBeforeAcquire
    /\ h_pc' = "finally"
    /\ PoolFrame
    /\ UNCHANGED << pool_out, h_kind, h_conn, et_conn, h_suspended, h_calls, h_gets,
                    h_returns >>

\* the handler waits at its await and the event loop starts another handler
PoolSuspend ==
    /\ h_pc = "before_acquire"
    /\ h_kind \in Awaits
    /\ h_suspended = None
    /\ h_calls < MaxCalls
    /\ h_suspended' = [kind |-> h_kind, conn |-> h_conn]
    /\ \E kind \in HandlerKinds : h_kind' = kind
    /\ h_pc' = "entry"
    /\ h_conn' = "none"
    /\ h_calls' = h_calls + 1
    /\ PoolFrame
    /\ UNCHANGED << pool_out, et_conn, h_gets, h_returns >>

\* the waiting handler goes on
PoolResume ==
    /\ h_pc = "idle"
    /\ h_suspended # None
    /\ h_kind' = h_suspended.kind
    /\ h_conn' = h_suspended.conn
    /\ h_pc' = "before_acquire"
    /\ h_suspended' = None
    /\ PoolFrame
    /\ UNCHANGED << pool_out, et_conn, h_calls, h_gets, h_returns >>

\* conn = db_config.get_connection() returns or raises (438, 517, 968, 1038,
\* 1244)
PoolAcquire ==
    /\ h_pc = "before_acquire"
    /\ h_kind # "ensure_table"
    /\ \/ /\ h_pc' = "finally"
          /\ UNCHANGED << pool_out, h_conn, h_gets >>
       \/ /\ h_conn' = "held"
          /\ pool_out' = GetConnection(pool_out)
          /\ h_gets' = h_gets + 1
          /\ h_pc' = "body"
    /\ PoolFrame
    /\ UNCHANGED << h_kind, et_conn, h_suspended, h_calls, h_returns >>

\* the statements on the connection: a return, an early return or an
\* exception caught by the handler's except clause
PoolBody ==
    /\ h_pc = "body"
    /\ h_pc' = "finally"
    /\ PoolFrame
    /\ UNCHANGED << pool_out, h_kind, h_conn, et_conn, h_suspended, h_calls, h_gets,
                    h_returns >>

\* finally: if conn: db_config.return_connection(conn)
PoolFinally ==
    /\ h_pc = "finally"
    /\ pool_out' = ReturnConnection(pool_out, h_conn)
    /\ h_returns' = h_returns + Held(h_conn)
    /\ h_conn' = "none"
    /\ h_kind' = ""
    /\ h_pc' = "idle"
    /\ PoolFrame
    /\ UNCHANGED << et_conn, h_suspended, h_calls, h_gets >>

PoolNext ==
    \/ PoolCall
    \/ PoolEntry
    \/ PoolEnsureTableAcquire
    \/ PoolEnsureTableFinish
    \/ PoolLeave
    \/ PoolSuspend
    \/ PoolResume
    \/ PoolAcquire
    \/ PoolBody
    \/ PoolFinally

PoolSpec == PoolInit /\ [][PoolNext]_vars

(***************************************************************************)
(* The two handlers that change the persistent state, each as one step     *)
(* (neither awaits after it has read its image): the database rows and     *)
(* the files of static/covers.  A call fails at one of its stages, the     *)
(* stages before it having been carried out, or at none.                   *)
(***************************************************************************)
\* save_book_with_rotation_enhanced: 414, 418, 420-434, 438, 442-448,
\* 460, 461-463, 466-472, 477
SaveStages == << "model", "ensure_table", "read", "connect", "insert", "decode",
                 "extract", "vector", "commit" >>

\* api_delete_book: 1038, 1042-1043, 1053, 1055
DeleteStages == << "connect", "select", "delete", "commit" >>

StageIndex(stages, stage) == CHOOSE i \in 1..Len(stages) : stages[i] = stage

\* the call got past this stage
Passed(stages, stage, fail) ==
    fail = "none" \/ StageIndex(stages, stage) < StageIndex(stages, fail)

Failures(stages) == { stages[i] : i \in 1..Len(stages) } \cup { "none" }

Persistent == [books |-> books, cover_embeddings |-> cover_embeddings,
               cover_files |-> cover_files]

AdminInit ==
    /\ clip_loaded \in BOOLEAN
    /\ EmptyDatabase
    /\ pc = "idle"
    /\ IdleLocals
    /\ UnitIdle
    /\ ScoreIdle
    /\ PoolIdle
    /\ AdminIdle

AdminFrame == UNCHANGED << clip_loaded, reg, deleted, last_write, req_vars, overlapped,
                           unit_vars, score_vars, pool_vars >>

\* lines 452-458: save_uploaded_image runs right after the INSERT returned
\* the id; it writes the file, or logs its error and returns ""
CoverWritten(fail, file_ok) == Passed(SaveStages, "insert", fail) /\ file_ok

\* save_book_with_rotation_enhanced, lines 402-488
AdminSaveBook ==
    /\ next_id <= MaxStoreIds
    /\ \E fail \in Failures(SaveStages), file_ok \in BOOLEAN, v \in BookVectors :
         /\ clip_loaded <=> fail # "model"
         /\ next_id' = IF Passed(SaveStages, "insert", fail) THEN next_id + 1
                       ELSE next_id
         /\ books' = IF fail = "none" THEN books \cup {next_id} ELSE books
         /\ cover_embeddings' = IF fail = "none"
                                THEN Upsert(cover_embeddings, next_id, v)
                                ELSE cover_embeddings
         /\ cover_files' = IF CoverWritten(fail, file_ok)
                           THEN cover_files \cup {next_id} ELSE cover_files
         /\ a_last' = [op |-> "save", success |-> fail = "none", book_id |-> next_id,
                       before |-> Persistent]
    /\ AdminFrame

\* lines 1042-1050: the file named by the row is removed before the DELETE;
\* a failure of os.remove is logged and ignored
CoverRemoved(b, fail, remove_ok) ==
    /\ Passed(DeleteStages, "select", fail)
    /\ b \in books
    /\ b \in cover_files
    /\ remove_ok

\* api_delete_book, lines 1032-1074
AdminDeleteBook ==
    /\ \E b \in 1..MaxStoreIds, fail \in Failures(DeleteStages), remove_ok \in BOOLEAN :
         /\ books' = IF fail = "none" THEN books \ {b} ELSE books
         /\ cover_embeddings' = IF fail = "none"
                                THEN CascadeDelete(cover_embeddings, b)
                                ELSE cover_embeddings
         /\ cover_files' = IF CoverRemoved(b, fail, remove_ok)
                           THEN cover_files \ {b} ELSE cover_files
         /\ a_last' = [op |-> "delete", success |-> fail = "none", book_id |-> b,
                       before |-> Persistent]
    /\ UNCHANGED next_id
    /\ AdminFrame

AdminNext ==
    \/ AdminSaveBook
    \/ AdminDeleteBook

AdminSpec == AdminInit /\ [][AdminNext]_vars

(***************************************************************************)
(* Properties.                                                             *)
(***************************************************************************)
Classified == pc = "done" /\ outcome # << >>

\* the gap of a classified request
Gap == outcome.score_gap[1]

\* C1: over a non-empty store the outcome tag is given by the first matching
\* rule, with the threshold row of the request's style: score >= HIGH and
\* gap >= MIN_GAP is high confidence; else score >= LOW and gap >= MIN_GAP is
\* medium confidence; else score >= LOW is low-confidence uncertain; otherwise
\* unknown.  Values equal to a threshold clear it.
C1_RuleTable ==
    Classified =>
        LET high == IF is_cartoon THEN HIGH_CARTOON ELSE HIGH_STANDARD
            low == IF is_cartoon THEN LOW_CARTOON ELSE LOW_STANDARD
            min_gap == IF is_cartoon THEN MIN_GAP_CARTOON ELSE MIN_GAP_STANDARD
        IN  /\ n_records # Some(0)
            /\ outcome.result_type =
                 IF best.score >= high /\ Gap >= min_gap THEN "high_confidence"
                 ELSE IF best.score >= low /\ Gap >= min_gap THEN "medium_confidence"
                 ELSE IF best.score >= low THEN "low_confidence_similar"
                 ELSE "unknown_book"

\* a standard request classified high with score and gap exactly on the thresholds
C1_Witness ==
    /\ Classified
    /\ ~is_cartoon
    /\ best.score = HIGH_STANDARD
    /\ Gap = MIN_GAP_STANDARD
    /\ outcome.result_type = "high_confidence"
    /\ response.error = ""

\* C2 (as the specification states it): a request over a store of zero
\* records yields the unknown-book result and is not reported as a failure.
C2_EmptyStoreIsUnknown ==
    (pc = "done" /\ n_records = Some(0)) =>
        /\ response.result # EmptyDict
        /\ "unknown_book" \in DOMAIN response.result
        /\ ApiIdentifyBook(response).success

\* the index of the first occurrence of the maximum of a non-empty list
FirstMaxIndex(s) ==
    CHOOSE k \in DOMAIN s :
        /\ \A j \in DOMAIN s : s[j] <= s[k]
        /\ \A j \in 1..(k - 1) : s[j] < s[k]

\* the (rotation, candidate) pair that produced the k-th score
RotationOfIndex(k) == Angles[((k - 1) \div Len(db_items)) + 1]
CandidateOfIndex(k) == db_items[((k - 1) % Len(db_items)) + 1][1]

\* C3: at every point of the scan the running best is the first pair, in
\* rotation-then-candidate order, that attains the maximal score so far; a
\* later pair with an equal score does not replace it.
C3_FirstEncounteredWins ==
    (all_scores # << >> /\ best.book_id # None) =>
        LET k == FirstMaxIndex(all_scores)
        IN  /\ best.score = all_scores[k]
            /\ best.rotation = RotationOfIndex(k)
            /\ best.book_id = Some(CandidateOfIndex(k))

\* a finished scan in which a later pair of another book and another rotation
\* ties with the winner, the winner being the book with the larger identifier
C3_Witness ==
    /\ Classified
    /\ best.score >= HIGH_STANDARD
    /\ \E j \in DOMAIN all_scores :
         /\ j > FirstMaxIndex(all_scores)
         /\ all_scores[j] = best.score
         /\ RotationOfIndex(j) # best.rotation
         /\ Some(CandidateOfIndex(j)) # best.book_id
         /\ CandidateOfIndex(j) < best.book_id[1]

C5_TagDependsOnScoreGapStyle ==
    (/\ u_out # << >>
     /\ u_prev # << >>
     /\ u_out.best.score = u_prev.best.score
     /\ u_out.score_gap = u_prev.score_gap
     /\ u_out.cartoon = u_prev.cartoon) =>
        u_out.result_type = u_prev.result_type

\* Scenario A: one record in the store, a standard-style query whose
\* rotation-0 embedding is the record's vector, all four rotations scored
ScenarioA ==
    /\ Classified
    /\ ~is_cartoon
    /\ Len(db_items) = 1
    /\ Len(embs) = Len(Angles)
    /\ embs[1] = db_items[1][2]

\* the result dictionary, when one is returned, carries 100.00 and rotation 0
ReportsFullScoreAtRotation0 ==
    (response.result # EmptyDict) =>
        /\ response.result.similarity_score = 10000
        /\ response.result.rotation_angle = 0

ShortGap == Classified /\ Gap < Thresholds(is_cartoon).min_gap

\* C7 (as the specification states it): with a gap below MIN_GAP the outcome
\* is one tier below what the score alone gives: score >= HIGH gives medium
\* confidence, a score in [LOW, HIGH) gives low-confidence uncertain.
C7_DowngradeOneTier ==
    ShortGap =>
        /\ best.score >= Thresholds(is_cartoon).high =>
               outcome.result_type = "medium_confidence"
        /\ (best.score >= Thresholds(is_cartoon).low
              /\ best.score < Thresholds(is_cartoon).high) =>
               outcome.result_type = "low_confidence_similar"

\* C7 (amended): with a gap below MIN_GAP every score >= LOW, whether or not
\* it reaches HIGH, gives low-confidence uncertain: the match is never
\* accepted as high or medium confidence.
C7_ShortGapIsUncertain ==
    ShortGap =>
        /\ best.score >= Thresholds(is_cartoon).low =>
               outcome.result_type = "low_confidence_similar"
        /\ outcome.result_type \notin {"high_confidence", "medium_confidence"}

\* a score above HIGH with a short positive gap, answered as an uncertain match
C7_Witness ==
    /\ ShortGap
    /\ Gap > 0
    /\ best.score >= Thresholds(is_cartoon).high
    /\ response.result # EmptyDict
    /\ "uncertain_match" \in DOMAIN response.result

\* the largest element of a list once one occurrence of v is taken out
LargestWithout(s, v) ==
    LET k == CHOOSE i \in DOMAIN s : s[i] = v
        rest == { s[j] : j \in DOMAIN s \ {k} }
    IN  CHOOSE x \in rest : \A y \in rest : x >= y

\* the scores of the candidates other than the winner
ScoresOfOtherBooks ==
    { all_scores[j] : j \in { i \in DOMAIN all_scores :
                                 Some(CandidateOfIndex(i)) # best.book_id } }

\* C8: the gap is taken over the flat list of all 4 x N scores of the
\* request: the largest score minus the second-largest element counted with
\* multiplicity, which may belong to another rotation of the winning book; a
\* duplicated maximum gives gap 0.
C8_GapOverAllPairs ==
    Classified =>
        /\ Len(all_scores) = Len(Angles) * Len(db_items)
        /\ Gap = best.score - LargestWithout(all_scores, best.score)
        /\ (\E i, j \in DOMAIN all_scores :
               i # j /\ all_scores[i] = best.score /\ all_scores[j] = best.score)
             => Gap = 0

\* two candidates, and the runner-up is another rotation of the winning book:
\* every score of the other book is below the second-largest score
C8_Witness ==
    /\ Classified
    /\ Len(db_items) = 2
    /\ Gap > 0
    /\ outcome.result_type = "high_confidence"
    /\ \A x \in ScoresOfOtherBooks : x < best.score - Gap

\* C9 (as the specification states it): a winner without a books row is
\* reported as an error of its own, not as an unknown book and not as the
\* generic no-match.
C9_MissingRowIsDistinctError ==
    (pc = "done" /\ lookup_missed) =>
        /\ response.result = EmptyDict
        /\ response.error # ""
        /\ response.error # MSG_NO_MATCH
        /\ ApiIdentifyBook(response).message # MSG_NO_MATCH

\* C10: when the model handle is missing at the start of the request, or an
\* extraction raises at any rotation, the request returns no result
\* dictionary of any kind, only a failure.
C10_ProviderFailureIsFailure ==
    (pc = "done" /\ (~clip_loaded \/ provider_raised)) =>
        /\ response.result = EmptyDict
        /\ response.error # ""
        /\ ~ApiIdentifyBook(response).success

\* an extraction raised after earlier rotations had found a score above HIGH
C10_Witness ==
    /\ pc = "done"
    /\ provider_raised
    /\ Len(embs) >= 2
    /\ best.score >= Thresholds(is_cartoon).high
    /\ response.result = EmptyDict

\* the four failure kinds a caller has to tell apart
FailureKinds ==
    { "ProviderUnavailable", "InvalidImage", "EmptyStore", "MetadataInconsistency" }

\* the pairs the request returns for a failure of each kind
ResponsesOf(kind) ==
    IF kind = "ProviderUnavailable"
    THEN { [result |-> EmptyDict, error |-> MSG_CLIP] }
           \cup { ExceptionResponse(what) : what \in ExtractionErrors }
    ELSE IF kind = "InvalidImage"
    THEN { ExceptionResponse(what) : what \in DecodeErrors }
    ELSE IF kind = "EmptyStore"
    THEN { [result |-> EmptyDict, error |-> MSG_NO_RECORDS] }
    ELSE { [result |-> EmptyDict, error |-> MSG_NO_MATCH] }

\* C11 (as the specification states it): what the caller receives for a
\* failure of one of the four kinds tells which of the four it was: no
\* failure of another kind returns the same pair.
C11_FailuresTellTheirKind ==
    (pc = "done" /\ failure \in FailureKinds) =>
        /\ response \in ResponsesOf(failure)
        /\ \A other \in FailureKinds \ {failure} : response \notin ResponsesOf(other)

\* a result dictionary that names a book (confirmed or uncertain)
NamesBook == pc = "done" /\ response.result # EmptyDict /\ "id" \in DOMAIN response.result

\* the index in all_scores of the pair (rotation index r, candidate index c)
IndexOfPair(r, c) == (r - 1) * Len(db_items) + c

\* C12: the rotation_angle and the identifier of a confirmed or uncertain
\* result are those of the pair that attains the maximal score of the request;
\* when a pair of the 180 degree rotation scores strictly higher than every
\* other pair, the result reports 180 and that pair's identifier.
C12_ReportsWinningPair ==
    NamesBook =>
        /\ \E k \in DOMAIN all_scores :
             /\ \A j \in DOMAIN all_scores : all_scores[j] <= all_scores[k]
             /\ response.result.rotation_angle = RotationOfIndex(k)
             /\ response.result.id = CandidateOfIndex(k)
             /\ response.result.similarity_score = 100 * all_scores[k]
        /\ \A c \in DOMAIN db_items :
             (\A j \in DOMAIN all_scores \ {IndexOfPair(3, c)} :
                  all_scores[j] < all_scores[IndexOfPair(3, c)])
               => /\ response.result.rotation_angle = 180
                  /\ response.result.id = db_items[c][1]

\* Scenario E: against the book that wins, the 0 degree rotation scores above
\* LOW but the 180 degree rotation scores higher, and the confirmed result
\* reports 180 for a store of two books
C12_Witness ==
    /\ NamesBook
    /\ "uncertain_match" \notin DOMAIN response.result
    /\ Len(db_items) = 2
    /\ response.result.rotation_angle = 180
    /\ \E c \in DOMAIN db_items :
         /\ response.result.id = db_items[c][1]
         /\ all_scores[IndexOfPair(1, c)] >= LOW_STANDARD
         /\ all_scores[IndexOfPair(1, c)] < all_scores[IndexOfPair(3, c)]

\* the set of rows the request has fetched
FetchedRows == { db_items[i] : i \in DOMAIN db_items }

\* nothing of a registration that is in progress is visible in the tables or
\* in the candidate set, and table books has a row exactly for the vectors
RegistrationInvisible ==
    /\ reg.pc # "idle" =>
         /\ reg.book_id[1] \notin books
         /\ reg.book_id[1] \notin RowIds(cover_embeddings)
         /\ reg.book_id[1] \notin RowIds(FetchedRows)
    /\ books = RowIds(cover_embeddings)

\* the fetch returns exactly the committed rows
FetchReadsCommitted == (fetches' # fetches) => FetchedRows' = cover_embeddings

\* a registration ends with both of its rows committed or with the tables as
\* they were
RegistrationAllOrNothing ==
    (reg.pc # "idle" /\ reg'.pc = "idle") =>
        \/ /\ reg.pc = "vector_inserted"
           /\ books' = books \cup {reg.book_id[1]}
           /\ cover_embeddings' = cover_embeddings \cup {<< reg.book_id[1], reg.vector >>}
        \/ /\ books' = books
           /\ cover_embeddings' = cover_embeddings

\* C13: under any interleaving of a registration with a match request the
\* candidate set holds a record only if the registration that wrote it has
\* committed: rows of a registration in progress or rolled back are never
\* fetched, and a books row is never visible without its vector.
C13_MatchSeesCommittedRowsOnly ==
    /\ []RegistrationInvisible
    /\ [][FetchReadsCommitted /\ RegistrationAllOrNothing]_vars

\* a request that fetched one committed record while a registration had both
\* of its rows written but not committed, and answered with a result
C13_Witness ==
    /\ Classified
    /\ reg.pc = "vector_inserted"
    /\ Len(db_items) = 1
    /\ response.error = ""
    /\ response.result # EmptyDict

\* C14: the request fetches the candidate set at most once, exactly once when
\* it reaches classification, and no handler of the same server process runs
\* between the fetch and the return of the result.
C14_NoHandlerBetweenFetchAndReturn ==
    /\ fetches <= 1
    /\ Classified => fetches = 1
    /\ ~overlapped

\* a request that went through fetch, scan, classification and lookup while
\* another client of the database deleted the winner in between
C14_Witness ==
    /\ Classified
    /\ fetches = 1
    /\ Len(all_scores) = Len(Angles) * Len(db_items)
    /\ lookups # << >>
    /\ lookup_missed

MatchTags == { "high_confidence", "medium_confidence", "low_confidence_similar" }

\* C15: the books lookup is made at most once per request, only on the high,
\* medium and low-confidence paths and only for the winning identifier; a
\* request that ends as unknown, on an empty store or in an error before
\* classification makes no lookup.
C15_LookupOnlyOnMatchPaths ==
    /\ Len(lookups) <= 1
    /\ lookups # << >> =>
         /\ Classified
         /\ outcome.result_type \in MatchTags
         /\ lookups = << best.book_id[1] >>
    /\ (Classified /\ outcome.result_type \in MatchTags) => lookups # << >>
    /\ (pc = "done" /\ (~Classified \/ outcome.result_type = "unknown_book")) =>
         lookups = << >>

\* a request that ends as unknown although a candidate scored above zero, and
\* made no lookup
C15_Witness ==
    /\ Classified
    /\ outcome.result_type = "unknown_book"
    /\ best.book_id # None
    /\ best.score > 0
    /\ lookups = << >>
    /\ response.result # EmptyDict

\* the fields a result dictionary that names a book has in common
MatchFields == { "id", "similarity_score", "rotation_angle", "details" }

\* C16: the outcome tag gives one of three shapes.  High and medium give a
\* confirmed result (identifier, score, rotation, confidence label, style
\* label) without the uncertain and the unknown flag; low-confidence gives the
\* same fields with the please-confirm flag, the actual and the required gap;
\* unknown gives the unknown flag, the best score and the register action,
\* and no identifier.
C16_ShapeByTag ==
    (Classified /\ failure = "") =>
        LET r == response.result
            tag == outcome.result_type
        IN  /\ r # EmptyDict
            /\ tag \in {"high_confidence", "medium_confidence"} =>
                 /\ MatchFields \subseteq DOMAIN r
                 /\ "uncertain_match" \notin DOMAIN r
                 /\ "unknown_book" \notin DOMAIN r
                 /\ r.id = best.book_id[1]
                 /\ r.details.confidence_level =
                        IF tag = "high_confidence" THEN "high" ELSE "medium"
                 /\ r.details.cartoon_detected = is_cartoon
            /\ tag = "low_confidence_similar" =>
                 /\ MatchFields \subseteq DOMAIN r
                 /\ "unknown_book" \notin DOMAIN r
                 /\ "uncertain_match" \in DOMAIN r
                 /\ r.uncertain_match
                 /\ r.id = best.book_id[1]
                 /\ r.details.confidence_level = "low"
                 /\ r.details.cartoon_detected = is_cartoon
                 /\ r.details.score_gap = 100 * Gap
                 /\ r.details.gap_required =
                        100 * (IF is_cartoon THEN MIN_GAP_CARTOON ELSE MIN_GAP_STANDARD)
            /\ tag = "unknown_book" =>
                 /\ "unknown_book" \in DOMAIN r
                 /\ r.unknown_book
                 /\ r.best_match_score = 100 * best.score
                 /\ r.action_needed = "add_new_book"
                 /\ r.cartoon_detected = is_cartoon
                 /\ "id" \notin DOMAIN r
                 /\ "uncertain_match" \notin DOMAIN r

\* an uncertain result of a cartoon request: the flag, a gap of 9 points and
\* the required 12
C16_Witness ==
    /\ Classified
    /\ is_cartoon
    /\ response.result # EmptyDict
    /\ "uncertain_match" \in DOMAIN response.result
    /\ response.result.details.score_gap = 900
    /\ response.result.details.gap_required = 1200

\* the scores of the request are the standard (cosine) scores of its pairs
ScoredWithCosine ==
    \A r \in DOMAIN embs, c \in DOMAIN db_items :
        all_scores[IndexOfPair(r, c)] = CosineScore(embs[r], db_items[c][2])

\* C17: a failure inside the style classifier does not abort the request:
\* the classifier answers "not cartoon", and the request goes on with the
\* standard scoring formula and the standard threshold row.
C17_StyleFailureMeansStandard ==
    (image_file.style_raises /\ pc \notin {"ensure_table", "read_image"}) =>
        /\ ~is_cartoon
        /\ failure \notin {"InvalidImage", "InvalidFile"}
        /\ ScoredWithCosine
        /\ (Classified /\ best.score >= HIGH_STANDARD /\ Gap >= MIN_GAP_STANDARD) =>
               outcome.result_type = "high_confidence"
        /\ (Classified /\ best.score < LOW_STANDARD) =>
               outcome.result_type = "unknown_book"

\* a photo whose colour analysis raised, confirmed with high confidence at a
\* score of 0.70 and a gap of 0.08, which the cartoon row would not accept
C17_Witness ==
    /\ Classified
    /\ image_file.style_raises
    /\ best.score = HIGH_STANDARD
    /\ Gap = MIN_GAP_STANDARD
    /\ response.result # EmptyDict
    /\ response.result.details.confidence_level = "high"
    /\ ~response.result.details.cartoon_detected

\* C18: when the photo cannot be decoded the request fails at once: no
\* candidate fetch, no rotation, no extraction attempt at any angle, and no
\* result dictionary of any kind.
C18_UndecodableFailsAtOnce ==
    (image_file.kind = "undecodable") =>
        /\ pc \in {"ensure_table", "read_image", "done"}
        /\ fetches = 0
        /\ embs = << >>
        /\ all_scores = << >>
        /\ ~provider_raised
        /\ outcome = << >>
        /\ pc = "done" =>
             /\ response.result = EmptyDict
             /\ response.error # ""
             /\ ~ApiIdentifyBook(response).success

\* the decode of an undecodable photo raised while the store held a record
C18_Witness ==
    /\ pc = "done"
    /\ image_file.kind = "undecodable"
    /\ failure = "InvalidImage"
    /\ cover_embeddings # {}
    /\ response.result = EmptyDict

\* C19: in every state of the store each identifier has at most one
\* candidate record and every record has its books row; writing a vector
\* for an identifier that already has one leaves exactly the written vector
\* for it (last write wins).
C19_OneRecordPerIdentifier ==
    /\ \A r1, r2 \in cover_embeddings : r1[1] = r2[1] => r1 = r2
    /\ RowIds(cover_embeddings) \subseteq books
    /\ last_write # None =>
         { r \in cover_embeddings : r[1] = last_write.book_id }
             = { << last_write.book_id, last_write.vector >> }

\* a vector written for an identifier that had a different one, with another
\* record in the store
C19_Witness ==
    /\ last_write # None
    /\ last_write.replaced # {}
    /\ last_write.replaced # { << last_write.book_id, last_write.vector >> }
    /\ Cardinality(cover_embeddings) >= 2

C21_CartoonRangeFromMinus30 ==
    (s_out # << >> /\ s_out.kind = "cartoon") =>
        (s_out.score >= 0 - 30 /\ s_out.score <= 100)

\* C21 (amended): every cartoon-profile score lies in [-0.7, 1.0]: the
\* cosine term contributes between -0.7 and 0.7 and the inverse-distance
\* term between 0 and 0.3.
C21_CartoonRangeFromMinus70 ==
    (s_out # << >> /\ s_out.kind = "cartoon") =>
        (s_out.score >= 0 - 70 /\ s_out.score <= 100)

\* a cartoon score below -0.3: opposite vectors far apart
C21_Witness ==
    /\ s_out # << >>
    /\ s_out.kind = "cartoon"
    /\ s_out.score < 0 - 30
    /\ Dot(s_emb, s_db_emb) < 0

\* C22 (as the specification states it): the standard score of a vector
\* against itself is exactly 1.0, and 0.0 when its norm is zero.
C22_SelfSimilarityIsOne ==
    (s_out # << >> /\ s_out.kind = "self") =>
        \/ s_out.cosine.zero_norm /\ Dot(s_emb, s_emb) = 0
        \/ ~s_out.cosine.zero_norm /\ s_out.cosine.dot = s_out.cosine.norm

\* C23: every connection checked out of the pool is held by a live call
\* (the running handler, the ensure_table() it called, or the handler that
\* waits); a call never holds more than one; and when no handler is running
\* or waiting the pool is back at its initial count, every connection
\* obtained having been returned once.
C23_ConnectionBalance ==
    /\ pool_out = Held(h_conn) + Held(et_conn)
                    + (IF h_suspended # None THEN Held(h_suspended.conn) ELSE 0)
    /\ Held(h_conn) + Held(et_conn) <= 1
    /\ h_returns <= h_gets
    /\ (h_pc = "idle" /\ h_suspended = None) =>
          (pool_out = 0 /\ h_returns = h_gets)

\* a sequence of handlers that obtained three connections, among them a
\* handler that ran while another waited, has ended
C23_Witness ==
    /\ h_pc = "idle"
    /\ h_suspended = None
    /\ h_gets >= 3
    /\ h_returns = h_gets
    /\ pool_out = 0

C27_FailedDeleteLeavesEverything ==
    (a_last # None /\ a_last.op = "delete" /\ ~a_last.success) =>
        /\ (a_last.book_id \in books) = (a_last.book_id \in a_last.before.books)
        /\ { r \in cover_embeddings : r[1] = a_last.book_id }
             = { r \in a_last.before.cover_embeddings : r[1] = a_last.book_id }
        /\ (a_last.book_id \in cover_files)
             = (a_last.book_id \in a_last.before.cover_files)

\* C25 (as the claim states it): after the scan of a non-empty candidate
\* set the running best score is the maximum of the score list, and when
\* that maximum is above the initial -1.0 the best identifier is the
\* candidate whose pair attains it.
C25_BestIsMaximum ==
    (s_out # << >> /\ s_out.kind = "scan") =>
        /\ s_out.best.score = MaxOf(s_out.all_scores)
        /\ MaxOf(s_out.all_scores) > 0 - s_out.scale =>
             /\ s_out.best.book_id = Some(1)
             /\ s_out.all_scores[1] = s_out.best.score

\* the candidate fetch of a request returns no record of a book whose delete
\* committed before it
FetchSkipsDeleted ==
    (fetches' # fetches) => RowIds(FetchedRows') \cap deleted = {}

\* C26: a request that fetches its candidates after the delete of book b
\* has committed does not have b among them, and a confirmed or uncertain
\* result names a fetched candidate only, so it does not name b.
C26_DeletedBookIsNotMatched ==
    /\ [][FetchSkipsDeleted]_vars
    /\ [](NamesBook => response.result.id \in RowIds(FetchedRows))

\* a book was registered and deleted, then the request fetched the other
\* book and answered with it
C26_Witness ==
    /\ NamesBook
    /\ fetches = 1
    /\ deleted # {}
    /\ deleted \cap RowIds(FetchedRows) = {}
    /\ response.result.id \notin deleted

====
